---- MODULE Spec2Model ----
(***************************************************************************)
(* Model of the resource allocation engine of the inventory management     *)
(* system (src/src/optimization/resource_allocator.py): the two integer    *)
(* programs it builds and hands to the solver, what it persists through    *)
(* its database session, and the background thread that reruns both.       *)
(*                                                                         *)
(* The solver (PuLP/CBC) is a library: it is modelled by its contract.     *)
(* When it reports LpStatusOptimal the variables hold some optimal         *)
(* solution of the program the code built; otherwise it reports the        *)
(* program infeasible or, at the time limit, not solved.                   *)
(***************************************************************************)
EXTENDS Integers, Sequences, FiniteSets, TLC

\* ------------------------------------------------------------------ bounds

\* Largest value an allocation variable takes in the model (the variables of
\* the program have no upper bound of their own); stock never exceeds it.
MaxAlloc == 4

\* Number of direct calls of an optimization entry point in one behaviour.
MaxCalls == 2

\* Number of threads run_periodic_optimization() creates in one behaviour.
MaxThreads == 2

\* Number of loop iterations begun, over all workers, in one behaviour.
MaxIterations == 2

\* update_stock() calls that change the stock, at most.
MaxMovements == 2

\* Optimization calls made between the stock movements of one behaviour.
MaxLedgerCalls == 1

\* Stock movements made between the optimization calls of one behaviour.
MaxLedgerMovements == 1

\* ------------------------------------------------------- program constants

\* time_slots = list(range(24))
NumSlots == 24

\* 'setup_cost': 10
SetupCost == 10

ItemIds == {1, 2}
LineIds == {1, 2}
Threads == 1..MaxThreads
TimeSlots == 0..(NumSlots - 1)

\* The thread handle before any thread was created (None).
NoThread == 0

VARIABLES
    inventory_items,       \* table inventory_items: id -> is_active, current_stock, unit_cost
    production_lines,      \* table production_lines: id -> is_active, capacity_per_hour
    production_records,    \* per line, actual_quantity of its records of the last 7 days
    reorder_point,         \* InventoryItem.reorder_point of every item
    efficiency_target,     \* ProductionLine.efficiency_target of every line, in percent
    daily_records,         \* per line, <<planned, actual>> of its records of the last day
    database_up,           \* the database answers queries (else a query raises)
    optimization_results,  \* table optimization_results (committed rows)
    resource_allocations,  \* table resource_allocations (committed rows)
    calls,                 \* optimization calls made so far; numbers the rows of a call
    solver_invocations,    \* number of prob.solve() calls made so far
    solver_status,         \* prob.status after the last prob.solve()
    ret,                   \* outcome of the last optimization call
    session_log,           \* what the last optimization call did with its session
    is_running,            \* ResourceAllocator.is_running
    optimization_thread,   \* ResourceAllocator.optimization_thread
    pc,                    \* position of every worker thread in _optimization_loop
    caller,                \* position of the thread calling start/stop
    iterations,            \* loop iterations begun so far
    exceptions,            \* per worker, exceptions caught by the loop so far
    flag_cleared,          \* per worker, is_running was cleared while it was alive
    stopped_running,       \* the last stop_optimization() was called with is_running set
    stock_movements,       \* table stock_movements, in order of insertion
    alerts,                \* table alerts (committed rows)
    stock_ret,             \* outcome of the last update_stock() call
    history,               \* outcome of the last get_optimization_history() call
    validation,            \* arguments and outcome of a validate_stock_movement() call
    stock_metrics          \* the item and the outcome of a _calculate_stock_metrics() call

db_vars == <<inventory_items, production_lines, production_records, reorder_point,
             efficiency_target, daily_records, database_up>>
out_vars == <<optimization_results, resource_allocations, calls, solver_invocations,
              solver_status, ret, session_log>>
loop_vars == <<is_running, optimization_thread, pc, caller, iterations, exceptions,
               flag_cleared, stopped_running>>
side_vars == <<stock_movements, alerts, stock_ret, history, validation,
               stock_metrics>>
vars == <<db_vars, out_vars, loop_vars, side_vars>>

\* ----------------------------------------------------------------- helpers

RECURSIVE SumOver(_, _)
\* lpSum / sum(): the sum of f[x] over the finite set S.
SumOver(S, f) ==
    IF S = {} THEN 0
    ELSE LET x == CHOOSE y \in S : TRUE
         IN  f[x] + SumOver(S \ {x}, f)

RECURSIVE SeqSum(_)
SeqSum(s) == IF s = <<>> THEN 0 ELSE Head(s) + SeqSum(Tail(s))

Minimum(S) == CHOOSE m \in S : \A n \in S : m <= n

\* ------------------------------------------------------------ data queries

\* _get_inventory_data: the active items, keyed by id.
GetInventoryData ==
    [i \in {j \in ItemIds : inventory_items[j].is_active} |->
        [current_stock |-> inventory_items[i].current_stock,
         unit_cost     |-> inventory_items[i].unit_cost]]

\* required_items of one line: empty without recent records, else
\* {1: int(avg * 0.8), 2: int(avg * 0.6)} with avg = sum / len.  For the
\* non-negative quantities of the model int() is the floor, taken exactly.
RequiredItems(recent_records) ==
    IF recent_records = <<>> THEN <<>>
    ELSE LET total == SeqSum(recent_records)
             n     == Len(recent_records)
         IN  (1 :> ((4 * total) \div (5 * n))) @@ (2 :> ((3 * total) \div (5 * n)))

\* _get_production_requirements: the active lines, keyed by id.
GetProductionRequirements ==
    [l \in {k \in LineIds : production_lines[k].is_active} |->
        [capacity_per_hour |-> production_lines[l].capacity_per_hour,
         required_items    |-> RequiredItems(production_records[l])]]

\* The lines query without its is_active filter.
GetProductionLinesDataWithInactive ==
    [l \in LineIds |->
        [capacity_per_hour |-> production_lines[l].capacity_per_hour,
         setup_cost        |-> SetupCost]]

\* _get_production_lines_data: the active lines, keyed by id.
GetProductionLinesData ==
    [l \in {k \in LineIds : production_lines[k].is_active} |->
        [capacity_per_hour |-> production_lines[l].capacity_per_hour,
         setup_cost        |-> SetupCost]]

\* ------------------------------------------- inventory allocation program

\* allocation_vars[item][line]: integer, lowBound=0.
AllocationVars(inventory_data, production_data) ==
    [DOMAIN inventory_data -> [DOMAIN production_data -> 0..MaxAlloc]]

\* The objective with its sign reversed (a maximisation of the cost).
AllocObjectiveNegated(x, inventory_data, production_data) ==
    SumOver(DOMAIN inventory_data,
        [i \in DOMAIN inventory_data |->
            SumOver(DOMAIN production_data,
                [l \in DOMAIN production_data |->
                    0 - 11 * inventory_data[i].unit_cost * x[i][l]])])

\* Objective: item_cost * x + 0.1 * item_cost * x over all variables, in
\* tenths of a cost unit (so that it stays an integer).
AllocObjective(x, inventory_data, production_data) ==
    SumOver(DOMAIN inventory_data,
        [i \in DOMAIN inventory_data |->
            SumOver(DOMAIN production_data,
                [l \in DOMAIN production_data |->
                    10 * inventory_data[i].unit_cost * x[i][l]
                    + inventory_data[i].unit_cost * x[i][l]])])

\* The stock bound put on every variable instead of on the item's total.
StockConstraintPerLine(x, inventory_data, production_data) ==
    \A i \in DOMAIN inventory_data : \A l \in DOMAIN production_data :
        x[i][l] <= inventory_data[i].current_stock

\* Constraint 1: total_allocated <= available_stock, for every item.
StockConstraint(x, inventory_data, production_data) ==
    \A i \in DOMAIN inventory_data :
        SumOver(DOMAIN production_data, x[i]) <= inventory_data[i].current_stock

\* The minimum put on the item's total instead of on the line's variable.
RequirementConstraintOnTotal(x, inventory_data, production_data) ==
    \A l \in DOMAIN production_data :
        \A i \in DOMAIN production_data[l].required_items :
            i \in DOMAIN x =>
                SumOver(DOMAIN production_data, x[i])
                    >= production_data[l].required_items[i]

\* Constraint 2: x[item][line] >= min_required, for every required item of a
\* line that is among the allocation variables.
RequirementConstraint(x, inventory_data, production_data) ==
    \A l \in DOMAIN production_data :
        \A i \in DOMAIN production_data[l].required_items :
            i \in DOMAIN x => x[i][l] >= production_data[l].required_items[i]

AllocFeasible(inventory_data, production_data) ==
    {x \in AllocationVars(inventory_data, production_data) :
        /\ StockConstraint(x, inventory_data, production_data)
        /\ RequirementConstraint(x, inventory_data, production_data)}

\* The solutions prob.solve() may leave in the variables with LpStatusOptimal.
AllocOptimal(inventory_data, production_data) ==
    LET feasible == AllocFeasible(inventory_data, production_data)
        best == Minimum({AllocObjective(x, inventory_data, production_data) :
                            x \in feasible})
    IN  IF feasible = {} THEN {}
        ELSE {x \in feasible :
                AllocObjective(x, inventory_data, production_data) = best}

\* _extract_allocation_results: per item, the lines with a quantity > 0.
ExtractAllocationResults(x) ==
    [i \in DOMAIN x |-> [l \in {k \in DOMAIN x[i] : x[i][k] > 0} |-> x[i][l]]]

\* --------------------------------------------- production schedule program

\* _get_pending_jobs_data: the fixed set of pending jobs.
JobIds == {1, 2, 3}
JobQuantity == (1 :> 100) @@ (2 :> 150) @@ (3 :> 75)
JobPriority == (1 :> 1) @@ (2 :> 2) @@ (3 :> 1)

\* A solution of the schedule program gives every job the (line, slot) pairs
\* whose binary variable is 1.  A solution with two such pairs for one job
\* violates constraint 1, so the model carries at most one pair per job:
\* the pair <<line, slot>>, or Unassigned when all of the job's variables are 0.
Unassigned == <<0, 0>>

\* value(schedule_vars[job][line][slot])
ScheduleVar(x, j, l, s) == IF x[j] = <<l, s>> THEN 1 ELSE 0

\* Objective: (slot * (2 - priority) + setup_cost) for every variable at 1.
ScheduleObjective(x, lines_data) ==
    SumOver({j \in JobIds : x[j] # Unassigned},
        [j \in JobIds |-> x[j][2] * (2 - JobPriority[j]) + lines_data[x[j][1]].setup_cost])

\* The assignment constraint as "at most one" instead of "exactly one".
AssignmentConstraintAtMostOne(x, lines_data) ==
    \A j \in JobIds :
        Cardinality({p \in {x[j]} : p # Unassigned}) <= 1

\* Constraint 1: total_assignments == 1, for every job.
AssignmentConstraint(x, lines_data) ==
    \A j \in JobIds :
        Cardinality({p \in {x[j]} : p # Unassigned}) = 1

\* Constraint 2: slot_assignments <= 1, for every line and slot.  A slot no
\* job is assigned to sums to 0, so only the assigned pairs are looked at.
SlotConstraint(x, lines_data) ==
    \A p \in {x[j] : j \in JobIds} \ {Unassigned} :
        Cardinality({j \in JobIds : ScheduleVar(x, j, p[1], p[2]) = 1}) <= 1

\* Constraint 3: slot_demand <= line_capacity, for every line and slot.  A
\* slot no job is assigned to has demand 0 (every line has such slots: there
\* are more slots than jobs), the others are the assigned pairs.
CapacityConstraint(x, lines_data) ==
    /\ \A l \in DOMAIN lines_data : 0 <= lines_data[l].capacity_per_hour
    /\ \A p \in {x[j] : j \in JobIds} \ {Unassigned} :
          SumOver({j \in JobIds : ScheduleVar(x, j, p[1], p[2]) = 1}, JobQuantity)
              <= lines_data[p[1]].capacity_per_hour

\* The places the search tries for one job: unassigned, or a slot of a line
\* whose capacity admits the job on its own (on any other line the job alone
\* breaks constraint 3, the quantities being positive).
JobPlaces(j, lines_data) ==
    {Unassigned} \cup
    {<<l, s>> : l \in {k \in DOMAIN lines_data :
                          JobQuantity[j] <= lines_data[k].capacity_per_hour},
                s \in TimeSlots}

ScheduleFeasible(lines_data) ==
    {x \in {(1 :> a) @@ (2 :> b) @@ (3 :> c) :
                a \in JobPlaces(1, lines_data),
                b \in JobPlaces(2, lines_data),
                c \in JobPlaces(3, lines_data)} :
        /\ AssignmentConstraint(x, lines_data)
        /\ SlotConstraint(x, lines_data)
        /\ CapacityConstraint(x, lines_data)}

\* The solutions prob.solve() may leave in the variables with LpStatusOptimal.
ScheduleOptimal(lines_data) ==
    LET feasible == ScheduleFeasible(lines_data)
        best == Minimum({ScheduleObjective(x, lines_data) : x \in feasible})
    IN  IF feasible = {} THEN {}
        ELSE {x \in feasible : ScheduleObjective(x, lines_data) = best}

\* _extract_schedule_results: per job with a variable at 1, its line and slot.
ExtractScheduleResults(x) ==
    [j \in {k \in JobIds : \E l \in LineIds, s \in TimeSlots :
                              ScheduleVar(x, k, l, s) = 1} |->
        [assigned_line |-> x[j][1], assigned_slot |-> x[j][2]]]

\* ------------------------------------------------------------- persistence

\* The save as an upsert: the new row replaces the rows of its type.
SaveReplacingRowsOfType(opt_type, objective, results, commit_fails) ==
    IF commit_fails THEN optimization_results
    ELSE {r \in optimization_results : r.optimization_type # opt_type} \cup
            {[call |-> calls + 1, optimization_type |-> opt_type,
              status |-> "COMPLETED", objective_value |-> objective,
              results |-> results]}

\* _save_optimization_result: add the row and commit; a failing commit is
\* logged and swallowed, and the row is lost with the failed transaction.
SaveOptimizationResult(opt_type, objective, results, commit_fails) ==
    IF commit_fails THEN optimization_results
    ELSE optimization_results \cup
            {[call |-> calls + 1, optimization_type |-> opt_type,
              status |-> "COMPLETED", objective_value |-> objective,
              results |-> results]}

\* _apply_inventory_allocations: one MATERIAL row per extracted allocation,
\* one commit; a failure is logged and the session rolled back.
ApplyInventoryAllocations(allocation_results, commit_fails) ==
    IF commit_fails THEN resource_allocations
    ELSE resource_allocations \cup
            {[call |-> calls + 1, production_line_id |-> l,
              resource_type |-> "MATERIAL", resource_id |-> <<"", i>>,
              allocated_quantity |-> allocation_results[i][l],
              status |-> "PLANNED"] :
                <<i, l>> \in {q \in ItemIds \X LineIds :
                                 /\ q[1] \in DOMAIN allocation_results
                                 /\ q[2] \in DOMAIN allocation_results[q[1]]}}

\* _apply_production_schedule: one LABOR row per scheduled job, one commit;
\* a failure is logged and the session rolled back.
ApplyProductionSchedule(schedule_results, commit_fails) ==
    IF commit_fails THEN resource_allocations
    ELSE resource_allocations \cup
            {[call |-> calls + 1,
              production_line_id |-> schedule_results[j].assigned_line,
              resource_type |-> "LABOR", resource_id |-> <<"job_", j>>,
              allocated_quantity |-> 1, status |-> "PLANNED"] :
                j \in DOMAIN schedule_results}

\* ------------------------------------------------------------ call results

\* No optimization call has returned yet.
NoCall ==
    [entry |-> "", outcome |-> "none", keys |-> {}, status |-> "", reason |-> "",
     objective_value |-> 0, allocations |-> <<>>, schedule |-> <<>>,
     recommendations |-> <<>>]

\* The outcome r, as the outcome of a call of the entry point named.
Of(entry, r) == [r EXCEPT !.entry = entry]

\* The call ended with the exception re-raised to its caller.
Raised == [NoCall EXCEPT !.outcome = "raised"]

\* {'status': 'failed', 'reason': reason}
Failed(reason) ==
    [NoCall EXCEPT !.outcome = "returned", !.keys = {"status", "reason"},
                   !.status = "failed", !.reason = reason]

\* {'status': 'success', 'objective_value', 'execution_time', 'allocations'}
AllocationSuccess(objective, allocation_results) ==
    [NoCall EXCEPT !.outcome = "returned",
                   !.keys = {"status", "objective_value", "execution_time", "allocations"},
                   !.status = "success", !.objective_value = objective,
                   !.allocations = allocation_results]

\* {'status': 'success', 'objective_value', 'execution_time', 'schedule'}
ScheduleSuccess(objective, schedule_results) ==
    [NoCall EXCEPT !.outcome = "returned",
                   !.keys = {"status", "objective_value", "execution_time", "schedule"},
                   !.status = "success", !.objective_value = objective,
                   !.schedule = schedule_results]

\* ------------------------------------------------------------ entry points

\* What a call did with the session of get_db_session(): the session.commit()
\* and session.rollback() calls made, by the call's helpers and by the exit
\* of get_session, and whether the commit of the run row, of the allocation
\* rows, raised.
SessionLog(commits, rollbacks, save_failed, apply_failed) ==
    [commits |-> commits, rollbacks |-> rollbacks, save_failed |-> save_failed,
     apply_failed |-> apply_failed]

\* No optimization call has used a session yet.
NoSession == SessionLog(0, 0, FALSE, FALSE)

\* A query raised inside the with block: get_session rolls back and re-raises.
QueryRaised == SessionLog(0, 1, FALSE, FALSE)

\* A return inside the with block before anything was written: get_session
\* commits on exit.
ReturnedEarly == SessionLog(1, 0, FALSE, FALSE)

\* The success path: _save_optimization_result commits, _apply_* commits
\* (and rolls back when that raises), get_session commits on exit.
SavedAndApplied(save_fails, apply_fails) ==
    SessionLog(3, IF apply_fails THEN 1 ELSE 0, save_fails, apply_fails)

\* The test with "and" in place of "or".
InsufficientDataBoth(first_data, second_data) ==
    DOMAIN first_data = {} /\ DOMAIN second_data = {}

\* if not inventory_data or not production_data (an empty dict is falsy).
InsufficientData(first_data, second_data) ==
    DOMAIN first_data = {} \/ DOMAIN second_data = {}

\* prob.status after prob.solve(PULP_CBC_CMD(timeLimit=...)) on a program
\* with the optimal solutions given.  Neither program can be unbounded: its
\* variables are bounded below and its costs are not negative.
SolveStatus(optimal, time_limit) ==
    IF time_limit THEN "Not Solved"
    ELSE IF optimal = {} THEN "Infeasible"
    ELSE "Optimal"

\* The test as "not infeasible": a solve stopped at its time limit passes.
IsNotInfeasible(status) == status # "Infeasible"

\* prob.status == LpStatusOptimal
IsOptimal(status) == status = "Optimal"

\* The snapshot written back with one unit of every active item reserved.
SnapshotReservingStock ==
    /\ inventory_items' =
          [i \in ItemIds |->
              IF inventory_items[i].is_active /\ inventory_items[i].current_stock > 0
              THEN [inventory_items[i] EXCEPT !.current_stock = @ - 1]
              ELSE inventory_items[i]]
    /\ UNCHANGED <<production_lines, production_records, reorder_point,
                   efficiency_target, daily_records, database_up, side_vars>>

\* The _get_*_data queries of an optimization call copy what they read into
\* dicts; the call assigns to no attribute of an item, a line or a record and
\* adds no movement and no alert.
ReadOnlySnapshot == UNCHANGED <<db_vars, side_vars>>

\* optimize_inventory_allocation(), as one call.  With the database down the
\* first query raises and the exception is re-raised.  time_limit: the solver
\* stops at its time limit; save_fails, apply_fails: the commit of the run
\* row, of the allocation rows, fails.
InventoryCall ==
    LET inventory_data == GetInventoryData
        production_data == GetProductionRequirements
    IN  /\ calls' = calls + 1
        /\ ReadOnlySnapshot
        /\ IF ~database_up
           THEN /\ ret' = Of("inventory", Raised)
                /\ session_log' = QueryRaised
                /\ UNCHANGED <<optimization_results, resource_allocations,
                               solver_invocations, solver_status>>
           ELSE IF InsufficientData(inventory_data, production_data)
           THEN /\ ret' = Of("inventory", Failed("insufficient_data"))
                /\ session_log' = ReturnedEarly
                /\ UNCHANGED <<optimization_results, resource_allocations,
                               solver_invocations, solver_status>>
           ELSE LET optimal == AllocOptimal(inventory_data, production_data)
                IN  /\ solver_invocations' = solver_invocations + 1
                    /\ \E time_limit \in BOOLEAN :
                       /\ solver_status' = SolveStatus(optimal, time_limit)
                       /\ IF ~IsOptimal(solver_status')
                          THEN /\ ret' = Of("inventory", Failed("no_optimal_solution"))
                               /\ session_log' = ReturnedEarly
                               /\ UNCHANGED <<optimization_results, resource_allocations>>
                          ELSE \E x \in optimal, save_fails \in BOOLEAN, apply_fails \in BOOLEAN :
                                 LET allocation_results == ExtractAllocationResults(x)
                                     objective ==
                                         AllocObjective(x, inventory_data, production_data)
                                 IN  /\ optimization_results' =
                                           SaveOptimizationResult("INVENTORY", objective,
                                               allocation_results, save_fails)
                                     /\ resource_allocations' =
                                           ApplyInventoryAllocations(allocation_results,
                                               apply_fails)
                                     /\ session_log' = SavedAndApplied(save_fails, apply_fails)
                                     /\ ret' = Of("inventory",
                                           AllocationSuccess(objective, allocation_results))

\* optimize_production_schedule(), as one call; the failures as above.
ScheduleCall ==
    LET lines_data == GetProductionLinesData
    IN  /\ calls' = calls + 1
        /\ ReadOnlySnapshot
        /\ IF ~database_up
           THEN /\ ret' = Of("schedule", Raised)
                /\ session_log' = QueryRaised
                /\ UNCHANGED <<optimization_results, resource_allocations,
                               solver_invocations, solver_status>>
           ELSE IF InsufficientData(lines_data, JobQuantity)
           THEN /\ ret' = Of("schedule", Failed("insufficient_data"))
                /\ session_log' = ReturnedEarly
                /\ UNCHANGED <<optimization_results, resource_allocations,
                               solver_invocations, solver_status>>
           ELSE LET optimal == ScheduleOptimal(lines_data)
                IN  /\ solver_invocations' = solver_invocations + 1
                    /\ \E time_limit \in BOOLEAN :
                       /\ solver_status' = SolveStatus(optimal, time_limit)
                       /\ IF ~IsOptimal(solver_status')
                          THEN /\ ret' = Of("schedule", Failed("no_optimal_solution"))
                               /\ session_log' = ReturnedEarly
                               /\ UNCHANGED <<optimization_results, resource_allocations>>
                          ELSE \E x \in optimal, save_fails \in BOOLEAN, apply_fails \in BOOLEAN :
                                 LET schedule_results == ExtractScheduleResults(x)
                                     objective == ScheduleObjective(x, lines_data)
                                 IN  /\ optimization_results' =
                                           SaveOptimizationResult("PRODUCTION", objective,
                                               schedule_results, save_fails)
                                     /\ resource_allocations' =
                                           ApplyProductionSchedule(schedule_results,
                                               apply_fails)
                                     /\ session_log' = SavedAndApplied(save_fails, apply_fails)
                                     /\ ret' = Of("schedule",
                                           ScheduleSuccess(objective, schedule_results))

\* A direct, synchronous call of optimize_inventory_allocation().
OptimizeInventoryAllocation ==
    /\ calls < MaxCalls
    /\ InventoryCall
    /\ UNCHANGED loop_vars

\* A direct, synchronous call of optimize_production_schedule().
OptimizeProductionSchedule ==
    /\ calls < MaxCalls
    /\ ScheduleCall
    /\ UNCHANGED loop_vars

\* ---------------------------------------------------------- periodic loop

\* A worker thread that was started and has not left _optimization_loop.
Alive(t) == pc[t] \notin {"new", "done"}

\* run_periodic_optimization(): a warning and nothing else when is_running
\* is set; otherwise set it, create the daemon thread and start it.
RunPeriodicOptimization ==
    /\ caller = "idle"
    /\ \/ /\ is_running
          /\ UNCHANGED <<is_running, optimization_thread, pc>>
       \/ /\ ~is_running
          /\ \E t \in Threads :
                /\ pc[t] = "new"
                /\ \A u \in Threads : u < t => pc[u] # "new"
                /\ is_running' = TRUE
                /\ optimization_thread' = t
                /\ pc' = [pc EXCEPT ![t] = "check"]
    /\ UNCHANGED <<caller, iterations, exceptions, flag_cleared, stopped_running>>
    /\ UNCHANGED <<db_vars, out_vars, side_vars>>

\* stop_optimization(), up to the join: clear is_running, then wait for the
\* thread if there is one.
StopOptimization ==
    /\ caller = "idle"
    /\ is_running' = FALSE
    /\ stopped_running' = is_running
    /\ flag_cleared' = [t \in Threads |-> flag_cleared[t] \/ Alive(t)]
    /\ caller' = IF optimization_thread # NoThread THEN "join" ELSE "idle"
    /\ UNCHANGED <<optimization_thread, pc, iterations, exceptions>>
    /\ UNCHANGED <<db_vars, out_vars, side_vars>>

\* optimization_thread.join(timeout=10) returns because the thread has ended.
JoinReturns ==
    /\ caller = "join"
    /\ pc[optimization_thread] = "done"
    /\ caller' = "idle"
    /\ UNCHANGED <<is_running, optimization_thread, pc, iterations, exceptions,
                   flag_cleared, stopped_running>>
    /\ UNCHANGED <<db_vars, out_vars, side_vars>>

\* optimization_thread.join(timeout=10) returns after its 10 seconds while
\* the thread is still in a solve (up to MAX_OPTIMIZATION_TIME = 300 s each)
\* or in time.sleep(OPTIMIZATION_INTERVAL = 3600 s).
JoinTimesOut ==
    /\ caller = "join"
    /\ pc[optimization_thread] \in {"inventory", "schedule", "sleep", "sleep_except"}
    /\ caller' = "idle"
    /\ UNCHANGED <<is_running, optimization_thread, pc, iterations, exceptions,
                   flag_cleared, stopped_running>>
    /\ UNCHANGED <<db_vars, out_vars, side_vars>>

\* while self.is_running: begin an iteration, or leave the loop.
LoopCheck(t) ==
    /\ pc[t] = "check"
    /\ \/ /\ is_running
          /\ iterations < MaxIterations
          /\ pc' = [pc EXCEPT ![t] = "inventory"]
          /\ iterations' = iterations + 1
       \/ /\ ~is_running
          /\ pc' = [pc EXCEPT ![t] = "done"]
          /\ UNCHANGED iterations
    /\ UNCHANGED <<is_running, optimization_thread, caller, exceptions, flag_cleared,
                   stopped_running>>
    /\ UNCHANGED <<db_vars, out_vars, side_vars>>

\* The loop body without its except branch: an exception ends the thread.
AfterCallUnhandled(outcome, onward) ==
    IF outcome = "raised" THEN "done" ELSE onward

\* try/except of the loop body: where the worker goes after a call that
\* returned (onward) or raised (the except branch: log, then sleep).
AfterCall(outcome, onward) ==
    IF outcome = "raised" THEN "sleep_except" ELSE onward

\* The loop going on to scheduling only after a successful allocation: a
\* returned status=failed result sends it to the sleep.
LoopInventorySkippingOnFailure(t) ==
    /\ pc[t] = "inventory"
    /\ InventoryCall
    /\ pc' = [pc EXCEPT ![t] = IF ret'.status = "failed" THEN "sleep"
                               ELSE AfterCall(ret'.outcome, "schedule")]
    /\ exceptions' = [exceptions EXCEPT
                         ![t] = IF ret'.outcome = "raised" THEN @ + 1 ELSE @]
    /\ UNCHANGED <<is_running, optimization_thread, caller, iterations, flag_cleared,
                   stopped_running>>

\* self.optimize_inventory_allocation() inside the loop.
LoopInventory(t) ==
    /\ pc[t] = "inventory"
    /\ InventoryCall
    /\ pc' = [pc EXCEPT ![t] = AfterCall(ret'.outcome, "schedule")]
    /\ exceptions' = [exceptions EXCEPT
                         ![t] = IF ret'.outcome = "raised" THEN @ + 1 ELSE @]
    /\ UNCHANGED <<is_running, optimization_thread, caller, iterations, flag_cleared,
                   stopped_running>>

\* self.optimize_production_schedule() inside the loop.
LoopSchedule(t) ==
    /\ pc[t] = "schedule"
    /\ ScheduleCall
    /\ pc' = [pc EXCEPT ![t] = AfterCall(ret'.outcome, "sleep")]
    /\ exceptions' = [exceptions EXCEPT
                         ![t] = IF ret'.outcome = "raised" THEN @ + 1 ELSE @]
    /\ UNCHANGED <<is_running, optimization_thread, caller, iterations, flag_cleared,
                   stopped_running>>

\* time.sleep(self.optimization_interval) returns, in the try or the except
\* branch; the loop goes back to its test.
LoopSleep(t) ==
    /\ pc[t] \in {"sleep", "sleep_except"}
    /\ pc' = [pc EXCEPT ![t] = "check"]
    /\ UNCHANGED <<is_running, optimization_thread, caller, iterations, exceptions,
                   flag_cleared, stopped_running>>
    /\ UNCHANGED <<db_vars, out_vars, side_vars>>

Worker(t) ==
    \/ LoopCheck(t)
    \/ LoopInventory(t)
    \/ LoopSchedule(t)
    \/ LoopSleep(t)

\* ---------------------------------------------------- resource utilization

\* turnover_rate = 4, the placeholder every item gets.
TurnoverRate == 4

\* if turnover_rate < 4: the threshold of the inventory rule.
TurnoverThreshold == 4

\* The elements of a finite set of numbers, in ascending order.
RECURSIVE Ascending(_)
Ascending(S) ==
    IF S = {} THEN <<>>
    ELSE LET m == Minimum(S) IN <<m>> \o Ascending(S \ {m})

\* sum(r.planned_quantity ...), sum(r.actual_quantity ...) of the records.
RECURSIVE TotalOf(_, _)
TotalOf(records, field) ==
    IF records = <<>> THEN 0
    ELSE Head(records)[field] + TotalOf(Tail(records), field)

\* current_efficiency of a line, as the fraction <<numerator, denominator>>:
\* (total_actual / total_planned) * 100, and 0 with no record of the last
\* day or nothing planned.
CurrentEfficiency(recent_records) ==
    LET total_planned == TotalOf(recent_records, 1)
        total_actual == TotalOf(recent_records, 2)
    IN  IF recent_records # <<>> /\ total_planned > 0
        THEN <<100 * total_actual, total_planned>>
        ELSE <<0, 1>>

\* The utilization data with a turnover rate taken from the movement
\* history: the number of movements recorded for the item.
GetResourceUtilizationDataFromMovements ==
    [lines |->
        [l \in {k \in LineIds : production_lines[k].is_active} |->
            [current_efficiency |-> CurrentEfficiency(daily_records[l]),
             target_efficiency |-> efficiency_target[l]]],
     inventory |->
        [i \in {k \in ItemIds : inventory_items[k].is_active} |->
            [current_stock |-> inventory_items[i].current_stock,
             turnover_rate |->
                Cardinality({k \in DOMAIN stock_movements :
                                stock_movements[k].inventory_item_id = i})]]]

\* _get_resource_utilization_data: one entry per active line and one per
\* active item.
GetResourceUtilizationData ==
    [lines |->
        [l \in {k \in LineIds : production_lines[k].is_active} |->
            [current_efficiency |-> CurrentEfficiency(daily_records[l]),
             target_efficiency |-> efficiency_target[l]]],
     inventory |->
        [i \in {k \in ItemIds : inventory_items[k].is_active} |->
            [current_stock |-> inventory_items[i].current_stock,
             turnover_rate |-> TurnoverRate]]]

\* The test against the target itself, without the factor 0.9.
BelowTargetItself(current_efficiency, target_efficiency) ==
    current_efficiency[1] < target_efficiency * current_efficiency[2]

\* current_efficiency < target_efficiency * 0.9
BelowTarget(current_efficiency, target_efficiency) ==
    10 * current_efficiency[1] < 9 * target_efficiency * current_efficiency[2]

\* The recommendations appended for the lines in the order given.
RECURSIVE LineRecommendations(_, _)
LineRecommendations(line_ids, lines_utilization) ==
    IF line_ids = <<>> THEN <<>>
    ELSE LET line_data == lines_utilization[Head(line_ids)]
             rest == LineRecommendations(Tail(line_ids), lines_utilization)
         IN  IF BelowTarget(line_data.current_efficiency, line_data.target_efficiency)
             THEN <<[type |-> "efficiency_improvement", id |-> Head(line_ids)]>> \o rest
             ELSE rest

\* The recommendations appended for the items in the order given.
RECURSIVE ItemRecommendations(_, _)
ItemRecommendations(item_ids, inventory_utilization) ==
    IF item_ids = <<>> THEN <<>>
    ELSE LET item_data == inventory_utilization[Head(item_ids)]
             rest == ItemRecommendations(Tail(item_ids), inventory_utilization)
         IN  IF item_data.turnover_rate < TurnoverThreshold
             THEN <<[type |-> "inventory_optimization", id |-> Head(item_ids)]>> \o rest
             ELSE rest

\* {'status': 'success', 'execution_time', 'recommendations', 'metrics'}
UtilizationSuccess(recommendations) ==
    [NoCall EXCEPT !.outcome = "returned",
                   !.keys = {"status", "execution_time", "recommendations", "metrics"},
                   !.status = "success", !.recommendations = recommendations]

\* The run row of a utilization pass is saved with one commit, and the exit
\* of get_session commits again.
SavedOnly(save_fails) == SessionLog(2, 0, save_fails, FALSE)

\* optimize_resource_utilization(), as one call.  The utilization data is a
\* dict of two keys and never falsy, so the no_data return is never taken.
UtilizationCall ==
    LET utilization_data == GetResourceUtilizationData
        recommendations ==
            LineRecommendations(Ascending(DOMAIN utilization_data.lines),
                                utilization_data.lines)
            \o ItemRecommendations(Ascending(DOMAIN utilization_data.inventory),
                                   utilization_data.inventory)
    IN  /\ calls' = calls + 1
        /\ ReadOnlySnapshot
        /\ UNCHANGED <<resource_allocations, solver_invocations, solver_status>>
        /\ IF ~database_up
           THEN /\ ret' = Of("utilization", Raised)
                /\ session_log' = QueryRaised
                /\ UNCHANGED optimization_results
           ELSE \E save_fails \in BOOLEAN :
                   /\ optimization_results' =
                         SaveOptimizationResult("RESOURCE", 0, recommendations, save_fails)
                   /\ session_log' = SavedOnly(save_fails)
                   /\ ret' = Of("utilization", UtilizationSuccess(recommendations))

\* A direct, synchronous call of optimize_resource_utilization().
OptimizeResourceUtilization ==
    /\ calls < MaxCalls
    /\ UtilizationCall
    /\ UNCHANGED loop_vars

\* ------------------------------------------------------------------ history

\* No get_optimization_history() call has returned yet.
NoHistory == [outcome |-> "none", rows |-> {}]

\* The optimization types a caller asks for; "" is no filter (None).
HistoryTypes == {"", "INVENTORY", "PRODUCTION", "RESOURCE"}

\* get_optimization_history(optimization_type): the rows of the type asked
\* for, read and summarised; the table is not written.  Every row of the
\* model is inside the window of the last 7 days.
GetOptimizationHistory ==
    /\ \E optimization_type \in HistoryTypes :
          history' =
             IF ~database_up THEN [outcome |-> "raised", rows |-> {}]
             ELSE [outcome |-> "returned",
                   rows |-> {[call |-> r.call,
                              optimization_type |-> r.optimization_type,
                              objective_value |-> r.objective_value,
                              status |-> r.status] :
                                r \in {q \in optimization_results :
                                          \/ optimization_type = ""
                                          \/ q.optimization_type = optimization_type}}]
    /\ UNCHANGED <<stock_movements, alerts, stock_ret, validation, stock_metrics>>
    /\ UNCHANGED <<db_vars, out_vars, loop_vars>>

\* ---------------------------------------------------------- stock ledger

\* An item id no row of inventory_items has.
UnknownItem == 3

\* The movement types callers pass; TRANSFER is not a valid one.
MovementTypes == {"IN", "OUT", "ADJUSTMENT", "TRANSFER"}

\* The quantities callers pass.
Quantities == -1..2

\* A Python value passed as a quantity: its type and, for a number, its
\* value (True is 1 and False is 0; a float is the whole number given).
PyValue(type, value) == [type |-> type, value |-> value]

IntValue(n) == PyValue("int", n)

\* The values callers pass as a quantity to the validator: integers, the
\* two booleans, floats, a string and None.
QuantityValues ==
    {IntValue(n) : n \in -2..3}
        \cup {PyValue("bool", 0), PyValue("bool", 1), PyValue("float", 0),
              PyValue("float", 2), PyValue("str", 0), PyValue("NoneType", 0)}

\* The values callers pass as a movement type to the validator.
MovementTypeValues == MovementTypes \cup {"in", ""}

\* isinstance(quantity, int): bool is a subclass of int.
IsInstanceInt(quantity) == quantity.type \in {"int", "bool"}

\* The validator with the tests IN/OUT: quantity < 0, so that 0 passes.
ValidateStockMovementAllowingZero(quantity, movement_type) ==
    IF ~IsInstanceInt(quantity) THEN FALSE
    ELSE IF movement_type \in {"IN", "OUT"} /\ quantity.value < 0 THEN FALSE
    ELSE IF movement_type = "ADJUSTMENT" /\ quantity.value < 0 THEN FALSE
    ELSE IF movement_type \notin {"IN", "OUT", "ADJUSTMENT"} THEN FALSE
    ELSE TRUE

\* DataValidator.validate_stock_movement.
ValidateStockMovement(quantity, movement_type) ==
    IF ~IsInstanceInt(quantity) THEN FALSE
    ELSE IF movement_type \in {"IN", "OUT"} /\ quantity.value <= 0 THEN FALSE
    ELSE IF movement_type = "ADJUSTMENT" /\ quantity.value < 0 THEN FALSE
    ELSE IF movement_type \notin {"IN", "OUT", "ADJUSTMENT"} THEN FALSE
    ELSE TRUE

\* An OUT movement computed as an IN movement.
NewStockAlwaysAdds(current_stock, quantity, movement_type) ==
    IF movement_type = "ADJUSTMENT" THEN quantity ELSE current_stock + quantity

\* new_stock of a valid movement.
NewStock(current_stock, quantity, movement_type) ==
    IF movement_type = "IN" THEN current_stock + quantity
    ELSE IF movement_type = "OUT" THEN current_stock - quantity
    ELSE quantity

\* The test off by one: an OUT movement may leave the stock at -1.
InsufficientStockBelowMinusOne(movement_type, new_stock) ==
    movement_type = "OUT" /\ new_stock < -1

\* if new_stock < 0, in the OUT branch.
InsufficientStock(movement_type, new_stock) ==
    movement_type = "OUT" /\ new_stock < 0

\* StockMovement(...) recording the quantity passed for an ADJUSTMENT too.
MovementOfQuantityPassed(item_id, movement_type, quantity, old_stock, new_stock) ==
    [inventory_item_id |-> item_id, movement_type |-> movement_type,
     quantity |-> quantity]

\* StockMovement(...): the quantity recorded is the delta for an ADJUSTMENT.
Movement(item_id, movement_type, quantity, old_stock, new_stock) ==
    [inventory_item_id |-> item_id, movement_type |-> movement_type,
     quantity |-> IF movement_type # "ADJUSTMENT" THEN quantity
                  ELSE new_stock - old_stock]

\* The alert check without the query for an existing alert.
CheckStockAlertsWithoutLookup(item_id, current_stock) ==
    IF current_stock <= reorder_point[item_id]
    THEN alerts \cup
            {[id |-> Cardinality(alerts) + 1, alert_type |-> "LOW_STOCK",
              severity |-> IF current_stock <= 0 THEN "HIGH" ELSE "MEDIUM",
              source_id |-> item_id, source_type |-> "INVENTORY",
              is_resolved |-> FALSE]}
    ELSE alerts

\* _check_stock_alerts: a LOW_STOCK alert for an item at or below its reorder
\* point that has no unresolved one.
CheckStockAlerts(item_id, current_stock) ==
    IF /\ current_stock <= reorder_point[item_id]
       /\ ~\E a \in alerts : /\ a.source_id = item_id
                             /\ a.source_type = "INVENTORY"
                             /\ a.alert_type = "LOW_STOCK"
                             /\ ~a.is_resolved
    THEN alerts \cup
            {[id |-> Cardinality(alerts) + 1, alert_type |-> "LOW_STOCK",
              severity |-> IF current_stock <= 0 THEN "HIGH" ELSE "MEDIUM",
              source_id |-> item_id, source_type |-> "INVENTORY",
              is_resolved |-> FALSE]}
    ELSE alerts

\* No update_stock() call has returned yet.
NoStockCall ==
    [outcome |-> "none", reason |-> "", item_id |-> 0, quantity |-> 0,
     movement_type |-> ""]

\* update_stock(item_id, quantity, movement_type) raised the error named.
StockRaised(reason, item_id, quantity, movement_type) ==
    [NoStockCall EXCEPT !.outcome = "raised", !.reason = reason,
                        !.item_id = item_id, !.quantity = quantity,
                        !.movement_type = movement_type]

\* update_stock(item_id, quantity, movement_type) returned True.
StockUpdated(item_id, quantity, movement_type) ==
    [NoStockCall EXCEPT !.outcome = "returned", !.item_id = item_id,
                        !.quantity = quantity, !.movement_type = movement_type]

\* The movement row of a refused call added and committed before the checks.
RaiseAfterRecording(reason, item_id, quantity, movement_type) ==
    /\ stock_ret' = StockRaised(reason, item_id, quantity, movement_type)
    /\ stock_movements' =
          IF item_id \in ItemIds
          THEN Append(stock_movements,
                      [inventory_item_id |-> item_id, movement_type |-> movement_type,
                       quantity |-> quantity])
          ELSE stock_movements
    /\ UNCHANGED <<inventory_items, alerts>>

\* An exception inside update_stock(): get_session rolls the session back,
\* so nothing of the call is committed, and the exception is re-raised.
RaiseRolledBack(reason, item_id, quantity, movement_type) ==
    /\ stock_ret' = StockRaised(reason, item_id, quantity, movement_type)
    /\ UNCHANGED <<inventory_items, stock_movements, alerts>>

\* update_stock(item_id, quantity, movement_type), as one call: it raises
\* what it refuses, and otherwise either its commit fails, get_session rolls
\* back and the error is raised, or the stock, the movement and the alert
\* are committed.
UpdateStockCall(item_id, quantity_value, movement_type) ==
    LET quantity == quantity_value.value
        refused ==
           IF ~ValidateStockMovement(quantity_value, movement_type)
           THEN "Invalid stock movement data"
           ELSE IF ~database_up THEN "database"
           ELSE IF item_id \notin ItemIds THEN "not found"
           ELSE IF InsufficientStock(movement_type,
                      NewStock(inventory_items[item_id].current_stock, quantity,
                               movement_type))
           THEN "Insufficient stock for OUT movement"
           ELSE ""
    IN  /\ IF refused # ""
           THEN RaiseRolledBack(refused, item_id, quantity, movement_type)
           ELSE \/ RaiseRolledBack("database", item_id, quantity, movement_type)
                \/ LET old_stock == inventory_items[item_id].current_stock
                       new_stock == NewStock(old_stock, quantity, movement_type)
                   IN  /\ new_stock <= MaxAlloc
                       /\ inventory_items' =
                             [inventory_items EXCEPT ![item_id].current_stock = new_stock]
                       /\ stock_movements' =
                             Append(stock_movements,
                                    Movement(item_id, movement_type, quantity,
                                             old_stock, new_stock))
                       /\ alerts' = CheckStockAlerts(item_id, new_stock)
                       /\ stock_ret' = StockUpdated(item_id, quantity, movement_type)
        /\ UNCHANGED <<production_lines, production_records, reorder_point,
                       efficiency_target, daily_records, database_up, history,
                       validation, stock_metrics>>
        /\ UNCHANGED <<out_vars, loop_vars>>

\* An update_stock() call with an integer quantity.
UpdateStock ==
    /\ Len(stock_movements) < MaxMovements
    /\ \E item_id \in ItemIds \cup {UnknownItem}, quantity \in Quantities,
          movement_type \in MovementTypes :
          UpdateStockCall(item_id, IntValue(quantity), movement_type)

\* ----------------------------------------------------------------- validator

\* No validate_stock_movement() call is being looked at.
NoValidation ==
    [item_id |-> 0, quantity |-> PyValue("", 0), movement_type |-> "",
     result |-> "none"]

\* self.validator.validate_stock_movement(quantity, movement_type), called
\* on its own with the arguments drawn.
ValidateOnce ==
    /\ validation.result = "none"
    /\ validation' =
          [validation EXCEPT
              !.result = IF ValidateStockMovement(validation.quantity,
                                                  validation.movement_type)
                         THEN "True" ELSE "False"]
    /\ UNCHANGED <<stock_movements, alerts, stock_ret, history, stock_metrics>>
    /\ UNCHANGED <<db_vars, out_vars, loop_vars>>

\* update_stock() called once with the arguments drawn.
UpdateStockOnce ==
    /\ stock_ret.outcome = "none"
    /\ UpdateStockCall(validation.item_id, validation.quantity, validation.movement_type)

\* ------------------------------------------------------------ stock metrics

MaxMetricStock == 4
MaxMetricReorderPoint == 3

\* A reorder point in the thousands, as bulk parts have, with the stock
\* levels next to it.
LargeReorderPoint == 2001

\* InventoryItem.maximum_stock when none is given.
DefaultMaximumStock == 1000

MetricStocks ==
    0..MaxMetricStock \cup {LargeReorderPoint - 1, LargeReorderPoint + 1}

MetricReorderPoints == 0..MaxMetricReorderPoint \cup {LargeReorderPoint}

\* A maximum stock above the large reorder point.
LargeMaximumStock == 5000

MetricMaximumStocks == {MaxMetricStock - 1, DefaultMaximumStock, LargeMaximumStock}

\* What _calculate_average_consumption returns, in units a day.
MetricConsumptions == {0, 2}

\* round(num / den, ndigits) as the whole number of last digits, for
\* num >= 0 and den > 0: to the nearest, a tie to the even one.
RoundHalfEven(num, den) ==
    LET q == num \div den
        r == num % den
    IN  IF 2 * r > den \/ (2 * r = den /\ q % 2 = 1) THEN q + 1 ELSE q

Maximum(a, b) == IF a >= b THEN a ELSE b

\* The if / elif chain that determines the stock status.
StockStatus(current_stock, reorder_point_of, maximum_stock) ==
    IF current_stock <= 0 THEN "OUT_OF_STOCK"
    ELSE IF current_stock <= reorder_point_of THEN "LOW_STOCK"
    ELSE IF current_stock >= maximum_stock THEN "OVERSTOCK"
    ELSE "NORMAL"

\* round(urgency_score, 1) in tenths: 0 above the reorder point, else
\* max(0, 100 - current_stock / max(reorder_point, 1) * 100).
UrgencyScore(current_stock, reorder_point_of) ==
    IF current_stock <= reorder_point_of
    THEN LET divisor == Maximum(reorder_point_of, 1)
         IN  RoundHalfEven(Maximum(0, 1000 * (divisor - current_stock)), divisor)
    ELSE 0

\* round(days_of_supply, 1) in tenths.
DaysOfSupply(current_stock, avg_daily_consumption) ==
    IF avg_daily_consumption > 0
    THEN RoundHalfEven(10 * current_stock, avg_daily_consumption)
    ELSE 0

\* The dictionary _calculate_stock_metrics returns; urgency_score and
\* days_of_supply in tenths, avg_daily_consumption in hundredths.
StockMetrics(current_stock, reorder_point_of, maximum_stock, avg_daily_consumption) ==
    [status |-> StockStatus(current_stock, reorder_point_of, maximum_stock),
     days_of_supply |-> DaysOfSupply(current_stock, avg_daily_consumption),
     avg_daily_consumption |-> 100 * avg_daily_consumption,
     reorder_needed |-> current_stock <= reorder_point_of,
     urgency_score |-> UrgencyScore(current_stock, reorder_point_of)]

\* Before _calculate_stock_metrics has returned.
NoMetrics ==
    [status |-> "", days_of_supply |-> 0, avg_daily_consumption |-> 0,
     reorder_needed |-> FALSE, urgency_score |-> 0]

\* No _calculate_stock_metrics() call is being looked at.
NoMetricsCall ==
    [current_stock |-> 0, reorder_point |-> 0, maximum_stock |-> 0,
     avg_daily_consumption |-> 0, returned |-> FALSE, result |-> NoMetrics]

\* _calculate_stock_metrics(item), called once on the item drawn.
CalculateStockMetrics ==
    /\ ~stock_metrics.returned
    /\ stock_metrics' =
          [stock_metrics EXCEPT
              !.returned = TRUE,
              !.result = StockMetrics(stock_metrics.current_stock,
                                      stock_metrics.reorder_point,
                                      stock_metrics.maximum_stock,
                                      stock_metrics.avg_daily_consumption)]
    /\ UNCHANGED <<stock_movements, alerts, stock_ret, history, validation>>
    /\ UNCHANGED <<db_vars, out_vars, loop_vars>>

\* -------------------------------------------------------------- environment

\* The database becomes unreachable, or reachable again.
ToggleDatabase ==
    /\ database_up' = ~database_up
    /\ UNCHANGED <<inventory_items, production_lines, production_records,
                   reorder_point, efficiency_target, daily_records>>
    /\ UNCHANGED <<out_vars, loop_vars, side_vars>>

\* ------------------------------------------------------------ initial data

\* Capacities of the lines the database is seeded with (25, 20, 30): below
\* the quantity of every pending job.
SeedCapacity == 30

Item(active, stock, cost) ==
    [is_active |-> active, current_stock |-> stock, unit_cost |-> cost]

Line(active, capacity) == [is_active |-> active, capacity_per_hour |-> capacity]

\* Items 1 and 2 as the inventory data varies.
Item1Choices == {Item(FALSE, 4, 10), Item(TRUE, 2, 10), Item(TRUE, 4, 10)}
Item2Choices == {Item(FALSE, 2, 5), Item(TRUE, 0, 5), Item(TRUE, 2, 0), Item(TRUE, 2, 5)}

\* Recent records (actual quantities) of a line: none, or averages 1.5 and 3.
RecordChoices == {<<>>, <<1, 2>>, <<3>>}

\* Reorder point 1 for every item, the default efficiency target (0.85) for
\* every line and no production record of the last day.
DefaultLedgerData ==
    /\ reorder_point = [i \in ItemIds |-> 1]
    /\ efficiency_target = [l \in LineIds |-> 85]
    /\ daily_records = [l \in LineIds |-> <<>>]

\* The threads and the caller before run_periodic_optimization() is called.
LoopIdle ==
    /\ is_running = FALSE
    /\ optimization_thread = NoThread
    /\ pc = [t \in Threads |-> "new"]
    /\ caller = "idle"
    /\ iterations = 0
    /\ exceptions = [t \in Threads |-> 0]
    /\ flag_cleared = [t \in Threads |-> FALSE]
    /\ stopped_running = FALSE

\* No entry point, update_stock or history call has been made.
NoCallMade ==
    /\ optimization_results = {}
    /\ resource_allocations = {}
    /\ calls = 0
    /\ solver_invocations = 0
    /\ solver_status = ""
    /\ ret = NoCall
    /\ session_log = NoSession
    /\ stock_movements = <<>>
    /\ alerts = {}
    /\ stock_ret = NoStockCall
    /\ history = NoHistory

\* No call has been made and none is being looked at.
NothingRun ==
    /\ NoCallMade
    /\ validation = NoValidation
    /\ stock_metrics = NoMetricsCall

\* The database as the inventory side varies; the lines have seed capacity.
InitInventoryData ==
    /\ inventory_items \in
          {(1 :> a) @@ (2 :> b) : a \in Item1Choices, b \in Item2Choices}
    /\ production_lines \in [LineIds -> {Line(FALSE, SeedCapacity), Line(TRUE, SeedCapacity)}]
    /\ production_records \in [LineIds -> RecordChoices]
    /\ \A l \in LineIds : ~production_lines[l].is_active => production_records[l] = <<>>
    /\ DefaultLedgerData
    /\ database_up = TRUE

Init ==
    /\ InitInventoryData
    /\ NothingRun
    /\ LoopIdle

Next ==
    \/ OptimizeInventoryAllocation
    \/ OptimizeProductionSchedule
    \/ ToggleDatabase

Spec == Init /\ [][Next]_vars

\* The database as the lines vary for the schedule; one item, no records.
InitScheduleData ==
    /\ inventory_items = (1 :> Item(TRUE, 4, 10)) @@ (2 :> Item(FALSE, 2, 5))
    /\ production_lines \in
          {(1 :> a) @@ (2 :> b) :
              a \in {Line(TRUE, 100), Line(TRUE, 150)},
              b \in {Line(FALSE, 150), Line(TRUE, 80), Line(TRUE, 150)}}
    /\ production_records = [l \in LineIds |-> <<>>]
    /\ DefaultLedgerData
    /\ database_up \in BOOLEAN

\* One call of optimize_production_schedule() on the data drawn.
ScheduleOnce ==
    /\ ret.outcome = "none"
    /\ ScheduleCall
    /\ UNCHANGED loop_vars

InitSched ==
    /\ InitScheduleData
    /\ NothingRun
    /\ LoopIdle

NextSched == ScheduleOnce

SpecSched == InitSched /\ [][NextSched]_vars

\* The database under the periodic loop: two lines of seed capacity (no
\* pending job fits them) whose recent production asks for more of item 1
\* than is in stock, so that neither optimization of an iteration succeeds.
InitLoop ==
    /\ inventory_items = (1 :> Item(TRUE, 2, 10)) @@ (2 :> Item(TRUE, 2, 5))
    /\ production_lines = [l \in LineIds |-> Line(TRUE, SeedCapacity)]
    /\ production_records = [l \in LineIds |-> <<3>>]
    /\ DefaultLedgerData
    /\ database_up = TRUE
    /\ NothingRun
    /\ LoopIdle

NextLoop ==
    \/ RunPeriodicOptimization
    \/ StopOptimization
    \/ JoinReturns
    \/ JoinTimesOut
    \/ \E t \in Threads : Worker(t)
    \/ ToggleDatabase

SpecLoop == InitLoop /\ [][NextLoop]_vars

\* Efficiency targets of a line, in percent: 0.85 (the default) and 0.9.
TargetChoices == {85, 90}

\* Records of the last day of a line, as <<planned, actual>>: none, nothing
\* planned, and efficiencies of 50, 76.5, 80, 81 and 85 percent.
DailyChoices ==
    {<<>>, <<<<0, 5>>>>, <<<<100, 50>>>>, <<<<200, 153>>>>, <<<<60, 50>>, <<40, 30>>>>,
     <<<<100, 81>>>>, <<<<100, 85>>>>}

\* The database as the efficiency of the lines varies.
InitUtilizationData ==
    /\ inventory_items = (1 :> Item(TRUE, 2, 10)) @@ (2 :> Item(FALSE, 2, 5))
    /\ production_lines \in [LineIds -> {Line(FALSE, SeedCapacity), Line(TRUE, SeedCapacity)}]
    /\ production_records = [l \in LineIds |-> <<>>]
    /\ reorder_point = [i \in ItemIds |-> 1]
    /\ efficiency_target \in [LineIds -> TargetChoices]
    /\ daily_records \in [LineIds -> DailyChoices]
    /\ database_up = TRUE

InitUtil ==
    /\ InitUtilizationData
    /\ NothingRun
    /\ LoopIdle

NextUtil ==
    \/ OptimizeResourceUtilization
    \/ ToggleDatabase

SpecUtil == InitUtil /\ [][NextUtil]_vars

\* The database under the stock ledger: two active items with stock 2, one
\* active line whose recent production asks for 1 of each item.
InitLedgerData ==
    /\ inventory_items = (1 :> Item(TRUE, 2, 10)) @@ (2 :> Item(TRUE, 2, 5))
    /\ production_lines = (1 :> Line(TRUE, SeedCapacity)) @@ (2 :> Line(FALSE, SeedCapacity))
    /\ production_records = (1 :> <<2>>) @@ (2 :> <<>>)
    /\ reorder_point = [i \in ItemIds |-> 1]
    /\ efficiency_target = [l \in LineIds |-> 90]
    /\ daily_records = (1 :> <<<<100, 50>>>>) @@ (2 :> <<>>)
    /\ database_up = TRUE

InitLedger ==
    /\ InitLedgerData
    /\ NothingRun
    /\ LoopIdle

\* A call of one of the three optimization entry points between the stock
\* movements.
OptimizeBetweenMovements ==
    /\ calls < MaxLedgerCalls
    /\ \/ InventoryCall
       \/ ScheduleCall
       \/ UtilizationCall
    /\ UNCHANGED loop_vars

\* An update_stock() call between the optimization calls.
MoveStockBetweenCalls ==
    /\ Len(stock_movements) < MaxLedgerMovements
    /\ UpdateStock

NextLedger ==
    \/ MoveStockBetweenCalls
    \/ OptimizeBetweenMovements

SpecLedger == InitLedger /\ [][NextLedger]_vars

\* The stock ledger alone, with the database reachable or not.
InitStock ==
    /\ inventory_items = (1 :> Item(TRUE, 2, 10)) @@ (2 :> Item(TRUE, 2, 5))
    /\ production_lines = (1 :> Line(TRUE, SeedCapacity)) @@ (2 :> Line(FALSE, SeedCapacity))
    /\ production_records = (1 :> <<2>>) @@ (2 :> <<>>)
    /\ DefaultLedgerData
    /\ database_up \in BOOLEAN
    /\ NothingRun
    /\ LoopIdle

NextStock ==
    \/ UpdateStock
    \/ ToggleDatabase

SpecStock == InitStock /\ [][NextStock]_vars

\* The arguments of one call drawn from every kind of value, on a database
\* that answers or not.
InitValidate ==
    /\ inventory_items = (1 :> Item(TRUE, 2, 10)) @@ (2 :> Item(TRUE, 2, 5))
    /\ production_lines = (1 :> Line(TRUE, SeedCapacity)) @@ (2 :> Line(FALSE, SeedCapacity))
    /\ production_records = (1 :> <<2>>) @@ (2 :> <<>>)
    /\ DefaultLedgerData
    /\ database_up \in BOOLEAN
    /\ NoCallMade
    /\ LoopIdle
    /\ stock_metrics = NoMetricsCall
    /\ validation \in
          {[NoValidation EXCEPT !.item_id = i, !.quantity = q, !.movement_type = t] :
              i \in {1, UnknownItem}, q \in QuantityValues, t \in MovementTypeValues}

NextValidate ==
    \/ ValidateOnce
    \/ UpdateStockOnce

SpecValidate == InitValidate /\ [][NextValidate]_vars

\* One item drawn from the stock levels, reorder points and maximum stocks,
\* with the consumption its movements average to.
InitMetrics ==
    /\ InitLedgerData
    /\ NoCallMade
    /\ LoopIdle
    /\ validation = NoValidation
    /\ stock_metrics \in
          {[NoMetricsCall EXCEPT !.current_stock = c, !.reorder_point = r,
                                 !.maximum_stock = m, !.avg_daily_consumption = a] :
              c \in MetricStocks, r \in MetricReorderPoints,
              m \in MetricMaximumStocks, a \in MetricConsumptions}

NextMetrics == CalculateStockMetrics

SpecMetrics == InitMetrics /\ [][NextMetrics]_vars

NextAudit ==
    \/ OptimizeInventoryAllocation
    \/ OptimizeProductionSchedule
    \/ OptimizeResourceUtilization
    \/ GetOptimizationHistory
    \/ ToggleDatabase

\* The optimization entry points and the history query on the ledger data.
SpecAudit == InitLedger /\ [][NextAudit]_vars

\* ------------------------------------------------------------------ claims

ActiveItems == {i \in ItemIds : inventory_items[i].is_active}
ActiveLines == {l \in LineIds : production_lines[l].is_active}

\* The last call was optimize_inventory_allocation() and returned success.
AllocationReturned ==
    /\ ret.outcome = "returned"
    /\ ret.status = "success"
    /\ "allocations" \in ret.keys

\* The last call was optimize_production_schedule() and returned success.
ScheduleReturned ==
    /\ ret.outcome = "returned"
    /\ ret.status = "success"
    /\ "schedule" \in ret.keys

\* The quantity of item i the returned allocations give line l.
AllocatedTo(i, l) ==
    IF i \in DOMAIN ret.allocations /\ l \in DOMAIN ret.allocations[i]
    THEN ret.allocations[i][l] ELSE 0

ReturnedTotal(i) == SumOver(DOMAIN ret.allocations[i], ret.allocations[i])

\* The MATERIAL rows the last call committed for item i, and their total.
PersistedRows(i) ==
    {r \in resource_allocations :
        r.call = calls /\ r.resource_type = "MATERIAL" /\ r.resource_id = <<"", i>>}

PersistedTotal(i) ==
    SumOver(PersistedRows(i), [r \in PersistedRows(i) |-> r.allocated_quantity])

\* The minimum requirement of line l for item i; 0 where none is defined.
MinimumRequired(l, i) ==
    IF i \in DOMAIN RequiredItems(production_records[l])
    THEN RequiredItems(production_records[l])[i] ELSE 0

\* C1: at most one worker loop is alive at any time, whatever the sequence
\* of run_periodic_optimization() and stop_optimization() calls.
C1_AtMostOneWorker == Cardinality({t \in Threads : Alive(t)}) <= 1

\* C2: when stop_optimization() was called with the loop running, the thread
\* it joined has left the loop by the time the call returns.
C2_StopLeavesNoWorker ==
    [][(caller = "join" /\ caller' = "idle" /\ stopped_running)
          => pc'[optimization_thread] = "done"]_vars

\* C3: an exception raised by an optimization inside an iteration never ends
\* the worker: it goes to the sleep of the except branch, from there back to
\* the loop test, and from the test into another iteration while is_running
\* is set; a worker leaves the loop only at the test, with is_running clear.
C3_ExceptionNeverEndsWorker ==
    [][\A t \in Threads :
          /\ exceptions'[t] > exceptions[t] => pc'[t] = "sleep_except"
          /\ (pc[t] = "sleep_except" /\ pc'[t] # pc[t]) => pc'[t] = "check"
          /\ (pc[t] = "check" /\ is_running /\ pc'[t] # pc[t]) => pc'[t] = "inventory"
          /\ (Alive(t) /\ pc'[t] \in {"new", "done"}) => (pc[t] = "check" /\ ~is_running)
      ]_vars

\* A worker that caught an exception has begun another iteration.
C3_Witness == \E t \in Threads : exceptions[t] > 0 /\ pc[t] = "inventory"

\* C4: the worker reads the flag only at the top of an iteration, runs
\* inventory allocation, then scheduling, then the sleep in that order (an
\* exception takes it to the sleep at once), and begins no further iteration
\* once the flag has been cleared.
C4_NoIterationAfterFlagCleared ==
    [][\A t \in Threads :
          /\ (pc[t] = "inventory" /\ pc'[t] # pc[t])
                => pc'[t] \in {"schedule", "sleep_except"}
          /\ (pc[t] = "schedule" /\ pc'[t] # pc[t])
                => pc'[t] \in {"sleep", "sleep_except"}
          /\ (pc[t] \in {"sleep", "sleep_except"} /\ pc'[t] # pc[t])
                => pc'[t] = "check"
          /\ (flag_cleared[t] /\ pc[t] = "check") => pc'[t] # "inventory"
      ]_vars

\* C5: after a successful inventory allocation, for every item the returned
\* quantities, and the quantities of the rows the call committed, sum over
\* the lines to at most the item's current_stock.
C5_AllocationWithinStock ==
    AllocationReturned =>
        \A i \in DOMAIN ret.allocations :
            /\ ReturnedTotal(i) <= inventory_items[i].current_stock
            /\ PersistedTotal(i) <= inventory_items[i].current_stock

\* An item is allocated to two lines, returned and committed, up to its stock.
C5_Witness ==
    /\ AllocationReturned
    /\ \E i \in DOMAIN ret.allocations :
          /\ Cardinality(DOMAIN ret.allocations[i]) = 2
          /\ ReturnedTotal(i) = inventory_items[i].current_stock
          /\ PersistedTotal(i) = inventory_items[i].current_stock

\* C6 (as claimed): after a successful inventory allocation every line gets
\* at least its minimum of every item its required_items map names.
C6_MinimumMet ==
    AllocationReturned =>
        \A l \in ActiveLines :
            \A i \in DOMAIN RequiredItems(production_records[l]) :
                AllocatedTo(i, l) >= MinimumRequired(l, i)

\* C6 (amended): after a successful inventory allocation every line gets at
\* least its minimum of every item its required_items map names that is an
\* active inventory item.
C6_MinimumMetForActiveItems ==
    AllocationReturned =>
        \A l \in ActiveLines :
            \A i \in DOMAIN RequiredItems(production_records[l]) :
                i \in ActiveItems => AllocatedTo(i, l) >= MinimumRequired(l, i)

\* Two lines each have a positive minimum of the same active item, and both
\* are met.
C6_Witness ==
    /\ AllocationReturned
    /\ \E i \in ActiveItems :
          /\ \A l \in LineIds : l \in ActiveLines /\ MinimumRequired(l, i) > 0
          /\ \A l \in LineIds : AllocatedTo(i, l) >= MinimumRequired(l, i)

\* C7: when every active item has a positive unit cost, a successful
\* inventory allocation gives every (item, line) pair exactly its minimum
\* requirement, with an entry in the result exactly where that is positive.
C7_MinimalAllocation ==
    (AllocationReturned /\ \A i \in ActiveItems : inventory_items[i].unit_cost > 0) =>
        /\ DOMAIN ret.allocations = ActiveItems
        /\ \A i \in ActiveItems : \A l \in ActiveLines :
              /\ AllocatedTo(i, l) = MinimumRequired(l, i)
              /\ l \in DOMAIN ret.allocations[i] <=> MinimumRequired(l, i) > 0

\* With positive costs and stock to spare, one pair gets its positive
\* minimum and a pair without a requirement gets no entry.
C7_Witness ==
    /\ AllocationReturned
    /\ \A i \in ActiveItems : inventory_items[i].unit_cost > 0
    /\ \E i \in ActiveItems, l \in ActiveLines :
          /\ MinimumRequired(l, i) > 0
          /\ AllocatedTo(i, l) = MinimumRequired(l, i)
          /\ AllocatedTo(i, l) < inventory_items[i].current_stock
    /\ \E i \in ActiveItems, l \in ActiveLines :
          /\ i \notin DOMAIN RequiredItems(production_records[l])
          /\ l \notin DOMAIN ret.allocations[i]

\* The jobs the returned schedule puts on slot s of line l.
JobsAt(l, s) ==
    {j \in DOMAIN ret.schedule :
        ret.schedule[j].assigned_line = l /\ ret.schedule[j].assigned_slot = s}

\* C8: after a successful schedule every pending job has its one (line,
\* slot) pair, on an active line and a slot in 0..23; no pair hosts two jobs;
\* and on every pair the quantities of its jobs sum to at most the line's
\* capacity_per_hour.
C8_ScheduleRespectsConstraints ==
    ScheduleReturned =>
        /\ DOMAIN ret.schedule = JobIds
        /\ \A j \in DOMAIN ret.schedule :
              /\ ret.schedule[j].assigned_line \in ActiveLines
              /\ ret.schedule[j].assigned_slot \in TimeSlots
        /\ \A l \in LineIds, s \in TimeSlots :
              /\ Cardinality(JobsAt(l, s)) <= 1
              /\ SumOver(JobsAt(l, s), JobQuantity)
                    <= production_lines[l].capacity_per_hour

\* A schedule was returned with two jobs on one line and the third on the other.
C8_Witness ==
    /\ ScheduleReturned
    /\ \E j, k \in DOMAIN ret.schedule :
          /\ j # k
          /\ ret.schedule[j].assigned_line = ret.schedule[k].assigned_line
    /\ \E j, k \in DOMAIN ret.schedule :
          ret.schedule[j].assigned_line # ret.schedule[k].assigned_line

\* C9: with the database answering, a call of optimize_inventory_allocation()
\* that finds no active item or no active line returns failed /
\* insufficient_data, invokes no solver and writes no row.
C9_NoDataNoSolve ==
    [][(calls' = calls + 1 /\ ret'.entry = "inventory" /\ database_up
            /\ (ActiveItems = {} \/ ActiveLines = {}))
          => /\ ret' = Of("inventory", Failed("insufficient_data"))
             /\ solver_invocations' = solver_invocations
             /\ optimization_results' = optimization_results
             /\ resource_allocations' = resource_allocations]_vars

\* The call returned insufficient_data with active lines but no active item.
C9_Witness ==
    /\ ret = Of("inventory", Failed("insufficient_data"))
    /\ ActiveItems = {}
    /\ ActiveLines # {}

\* C10: a call whose solve does not end with status Optimal returns failed /
\* no_optimal_solution, with neither allocations nor schedule in the result,
\* and writes no row.
C10_NoOptimalNothingWritten ==
    [][(solver_invocations' = solver_invocations + 1 /\ solver_status' # "Optimal")
          => /\ ret'.outcome = "returned"
             /\ ret'.status = "failed"
             /\ ret'.reason = "no_optimal_solution"
             /\ ret'.keys = {"status", "reason"}
             /\ optimization_results' = optimization_results
             /\ resource_allocations' = resource_allocations]_vars

\* A schedule call returned no_optimal_solution on an infeasible program,
\* as the second call to reach the solver, and no row has been written.
C10_Witness ==
    /\ ret = Of("schedule", Failed("no_optimal_solution"))
    /\ solver_status = "Infeasible"
    /\ solver_invocations = 2
    /\ optimization_results = {}
    /\ resource_allocations = {}

\* A step that is a call of optimize_inventory_allocation() or of
\* optimize_production_schedule() whose solve ended with an optimal solution.
OptimalSolve ==
    /\ solver_invocations' = solver_invocations + 1
    /\ solver_status' = "Optimal"

\* The run rows, and the allocation rows, the step has committed.
NewRuns == optimization_results' \ optimization_results
NewAllocations == resource_allocations' \ resource_allocations

\* C11: a solve that ends without an optimal solution (infeasible, or stopped
\* at its time limit) still adds a run row, of status FAILED, and adds no
\* ResourceAllocation row.
C11_FailedSolveRecorded ==
    [][(solver_invocations' = solver_invocations + 1 /\ solver_status' # "Optimal")
          => /\ \E r \in NewRuns : r.status = "FAILED"
             /\ NewAllocations = {}]_vars

\* C12: a call of optimize_inventory_allocation() or
\* optimize_production_schedule() whose solve is optimal adds exactly one run
\* row, of status COMPLETED and of type INVENTORY resp. PRODUCTION.
C12_OptimalSolveRecordedOnce ==
    [][OptimalSolve
          => /\ Cardinality(NewRuns) = 1
             /\ \A r \in NewRuns :
                   /\ r.status = "COMPLETED"
                   /\ r.optimization_type =
                         IF ret'.entry = "inventory" THEN "INVENTORY" ELSE "PRODUCTION"]_vars

\* C13: an optimization call that writes commits its session once, after
\* applying its results, and when the apply step raises none of the call's
\* writes stays committed: no ResourceAllocation row and no run row.
C13_OneCommitAllOrNothing ==
    [][OptimalSolve
          => /\ session_log'.commits = 1
             /\ session_log'.apply_failed => (NewAllocations = {} /\ NewRuns = {})]_vars

\* C14: when the commit of the run row or of the allocation rows fails, the
\* session is rolled back and the call raises; it does not return success.
C14_PersistenceFailureReraised ==
    [][(OptimalSolve /\ (session_log'.save_failed \/ session_log'.apply_failed))
          => /\ session_log'.rollbacks > 0
             /\ ret'.outcome = "raised"
             /\ ret'.status # "success"]_vars

\* C15: an optimization that is infeasible (an item's stock falls short of
\* the requirements, or no line fits a job) creates an Alert row.
C15_InfeasibilityAlerted ==
    [][(solver_invocations' = solver_invocations + 1 /\ solver_status' = "Infeasible")
          => alerts' # alerts]_vars

\* The last call was optimize_resource_utilization() and returned success.
UtilizationReturned ==
    /\ ret.outcome = "returned"
    /\ ret.status = "success"
    /\ "recommendations" \in ret.keys

\* The number of recommendations of the type named the last call returned
\* for the line or item of the id given.
RecommendationsFor(type, id) ==
    Cardinality({k \in DOMAIN ret.recommendations :
                    /\ ret.recommendations[k].type = type
                    /\ ret.recommendations[k].id = id})

\* Ten times the current efficiency of line l in percent is below nine times
\* its target in percent, the efficiency being 100 * actual / planned over
\* the records of the last day, and 0 with nothing planned.
StrictlyBelowNineTenths(l) ==
    LET planned == TotalOf(daily_records[l], 1)
        actual == TotalOf(daily_records[l], 2)
    IN  IF planned > 0
        THEN 10 * 100 * actual < 9 * efficiency_target[l] * planned
        ELSE 0 < efficiency_target[l]

\* C16: a utilization pass returns exactly one efficiency_improvement
\* recommendation for every active line whose current efficiency is strictly
\* below 0.9 times its target, and none for any other line.
C16_EfficiencyFlaggedBelowNineTenths ==
    UtilizationReturned =>
        \A l \in LineIds :
            RecommendationsFor("efficiency_improvement", l) =
                IF production_lines[l].is_active /\ StrictlyBelowNineTenths(l)
                THEN 1 ELSE 0

\* Line 1 at 50 percent against a target of 90 is flagged, line 2 at 85
\* percent against 90 is not.
C16_Witness ==
    /\ UtilizationReturned
    /\ ActiveLines = LineIds
    /\ efficiency_target = [l \in LineIds |-> 90]
    /\ daily_records = (1 :> <<<<100, 50>>>>) @@ (2 :> <<<<100, 85>>>>)
    /\ ret.recommendations = <<[type |-> "efficiency_improvement", id |-> 1]>>

\* C17: a successful inventory allocation commits exactly one row per
\* (item, line) pair of a non-zero returned quantity, MATERIAL and PLANNED
\* and carrying that quantity, and no other row.
C17_OneRowPerAllocation ==
    [][(OptimalSolve /\ ret'.entry = "inventory" /\ ret'.status = "success")
          => /\ \A r \in NewAllocations :
                   r.resource_type = "MATERIAL" /\ r.status = "PLANNED"
             /\ \A i \in ItemIds, l \in LineIds :
                   LET returned ==
                          IF i \in DOMAIN ret'.allocations
                             /\ l \in DOMAIN ret'.allocations[i]
                          THEN ret'.allocations[i][l] ELSE 0
                       rows == {r \in NewAllocations :
                                   /\ r.resource_id = <<"", i>>
                                   /\ r.production_line_id = l}
                   IN  /\ Cardinality(rows) = IF returned > 0 THEN 1 ELSE 0
                       /\ \A r \in rows : r.allocated_quantity = returned]_vars

\* C18: the rows of optimization_results are append-only: no optimization
\* call and no history query updates or deletes a row that exists; every
\* step leaves every existing row in the table as it was.
C18_RunsAppendOnly ==
    [][optimization_results \subseteq optimization_results']_vars

\* Two runs have been saved, and a history query has returned both.
C18_Witness ==
    /\ Cardinality(optimization_results) = 2
    /\ history.outcome = "returned"
    /\ Cardinality(history.rows) = 2

\* The items, lines and production records, with every field of theirs.
LedgerData ==
    <<inventory_items, production_lines, production_records, reorder_point,
      efficiency_target, daily_records>>

\* C19: a call of an optimization entry point, successful or failed, leaves
\* every item, line and production record as it was and records no stock
\* movement; a step that changes an item is a successful update_stock().
C19_OptimizationLeavesStock ==
    [][/\ calls' # calls => (LedgerData' = LedgerData /\ stock_movements' = stock_movements)
       /\ inventory_items' # inventory_items
             => /\ calls' = calls
                /\ stock_ret'.outcome = "returned"
                /\ Len(stock_movements') = Len(stock_movements) + 1]_vars

\* After a stock movement, an inventory allocation has succeeded and
\* committed rows for item 1, whose stock is what the movement left.
C19_Witness ==
    /\ AllocationReturned
    /\ PersistedRows(1) # {}
    /\ stock_movements = <<Movement(1, "IN", 1, 2, 3)>>
    /\ inventory_items[1].current_stock = 3

\* A step in which update_stock() returned True, changed an item or recorded
\* a movement.
StockChanged ==
    \/ stock_movements' # stock_movements
    \/ inventory_items' # inventory_items
    \/ (stock_ret' # stock_ret /\ stock_ret'.outcome = "returned")

\* C20: an update_stock(item, q, type) that succeeds returns True, sets the
\* item's current_stock to old + q for IN, old - q for OUT and q for
\* ADJUSTMENT, touches no other item, and appends exactly one StockMovement
\* for the item, of quantity q for IN and OUT and new - old for ADJUSTMENT.
C20_StockMovementApplied ==
    [][StockChanged
          => LET call == stock_ret'
                 item == call.item_id
                 q == call.quantity
                 old == inventory_items[item].current_stock
                 new == inventory_items'[item].current_stock
             IN  /\ call.outcome = "returned"
                 /\ item \in ItemIds
                 /\ call.movement_type \in {"IN", "OUT", "ADJUSTMENT"}
                 /\ call.movement_type = "IN" => new = old + q
                 /\ call.movement_type = "OUT" => new = old - q
                 /\ call.movement_type = "ADJUSTMENT" => new = q
                 /\ inventory_items' = [inventory_items EXCEPT ![item].current_stock = new]
                 /\ stock_movements' =
                       Append(stock_movements,
                              [inventory_item_id |-> item,
                               movement_type |-> call.movement_type,
                               quantity |-> IF call.movement_type = "ADJUSTMENT"
                                            THEN new - old ELSE q])]_vars

\* Successive calls compose: item 1 at stock 2, after IN 2 and then OUT 1,
\* is at stock 3, with the two movements recorded in that order.
C20_Witness ==
    /\ stock_ret = StockUpdated(1, 1, "OUT")
    /\ stock_movements =
          <<[inventory_item_id |-> 1, movement_type |-> "IN", quantity |-> 2],
            [inventory_item_id |-> 1, movement_type |-> "OUT", quantity |-> 1]>>
    /\ inventory_items[1].current_stock = 3
    /\ inventory_items[2].current_stock = 2

\* A step in which an update_stock() call has returned or raised.  (A call
\* that repeats the last one's arguments and raises as it did leaves the
\* state as it is.)
StockCall == stock_ret' # stock_ret

\* C21: an update_stock() call for an OUT movement of more than the item's
\* current stock raises 'Insufficient stock ...' and changes nothing, and no
\* step leaves an item with a negative current_stock.
C21_StockNeverNegative ==
    [][/\ \A i \in ItemIds : inventory_items'[i].current_stock >= 0
       /\ (/\ StockCall
           /\ database_up
           /\ stock_ret'.movement_type = "OUT"
           /\ stock_ret'.item_id \in ItemIds
           /\ stock_ret'.quantity > inventory_items[stock_ret'.item_id].current_stock)
             => /\ stock_ret'.outcome = "raised"
                /\ stock_ret'.reason = "Insufficient stock for OUT movement"
                /\ inventory_items' = inventory_items]_vars

\* After an OUT movement of 1 left item 1 at stock 1, an OUT movement of 2
\* has been refused.
C21_Witness ==
    /\ stock_ret = StockRaised("Insufficient stock for OUT movement", 1, 2, "OUT")
    /\ stock_movements = <<Movement(1, "OUT", 1, 2, 1)>>
    /\ inventory_items[1].current_stock = 1

\* C22: an update_stock() call that raises (invalid movement data, unknown
\* item, OUT above the stock, or a failing database) changes no item's
\* stock, records no movement and creates no alert.
C22_RaisedCallChangesNothing ==
    [][(StockCall /\ stock_ret'.outcome = "raised")
          => /\ inventory_items' = inventory_items
             /\ stock_movements' = stock_movements
             /\ alerts' = alerts]_vars

\* A call for an unknown item has raised after a movement that created an
\* alert; the movement and the alert are all there is.
C22_Witness ==
    /\ stock_ret.outcome = "raised"
    /\ stock_ret.reason = "not found"
    /\ stock_movements = <<Movement(1, "OUT", 1, 2, 1)>>
    /\ Cardinality(alerts) = 1
    /\ inventory_items[1].current_stock = 1

\* ------------------------------------------------------------------ C23

\* The inputs the validator is stated to accept: an integer quantity (a
\* Python int, of which bool is a subclass), one of the three movement
\* types, a positive quantity for IN and OUT, a non-negative one for
\* ADJUSTMENT.
StatedValid(quantity, movement_type) ==
    /\ quantity.type \in {"int", "bool"}
    /\ \/ movement_type \in {"IN", "OUT"} /\ quantity.value > 0
       \/ movement_type = "ADJUSTMENT" /\ quantity.value >= 0

\* C23: validate_stock_movement(q, type) returns True exactly when q is an
\* integer, type is IN, OUT or ADJUSTMENT, q > 0 for IN/OUT and q >= 0 for
\* ADJUSTMENT; update_stock raises ValueError("Invalid stock movement
\* data") for every other input, whether or not the database answers and
\* whether or not the item exists, and leaves every row as it was.
C23_ValidatorGatesUpdate ==
    [][/\ validation'.result # validation.result =>
             (validation'.result = "True"
                 <=> StatedValid(validation.quantity, validation.movement_type))
       /\ (stock_ret' # stock_ret
             /\ ~StatedValid(validation.quantity, validation.movement_type)) =>
             /\ stock_ret'.outcome = "raised"
             /\ stock_ret'.reason = "Invalid stock movement data"
             /\ UNCHANGED <<inventory_items, stock_movements, alerts>>]_vars

\* A zero OUT quantity for an unknown item on a database that is down was
\* refused by the validator and by update_stock as invalid data.
C23_Witness ==
    /\ validation.result = "False"
    /\ validation.quantity = IntValue(0)
    /\ validation.movement_type = "OUT"
    /\ validation.item_id = UnknownItem
    /\ ~database_up
    /\ stock_ret.outcome = "raised"
    /\ stock_ret.reason = "Invalid stock movement data"

\* ------------------------------------------------------------------ C24

\* C24: _calculate_stock_metrics classifies an item as OUT_OF_STOCK when
\* current_stock <= 0, else LOW_STOCK when current_stock <= reorder_point,
\* else OVERSTOCK when current_stock >= maximum_stock, else NORMAL;
\* reorder_needed is true exactly when current_stock <= reorder_point; and
\* urgency_score is positive for stock strictly below a positive reorder
\* point and 0 for stock above the reorder point.
C24_MetricsClassifyAndScore ==
    stock_metrics.returned =>
        LET c == stock_metrics.current_stock
            r == stock_metrics.reorder_point
            m == stock_metrics.maximum_stock
            result == stock_metrics.result
        IN  /\ result.status =
                  (IF c <= 0 THEN "OUT_OF_STOCK"
                   ELSE IF c <= r THEN "LOW_STOCK"
                   ELSE IF c >= m THEN "OVERSTOCK"
                   ELSE "NORMAL")
            /\ result.reorder_needed <=> (c <= r)
            /\ (r > 0 /\ c < r) => result.urgency_score > 0
            /\ c > r => result.urgency_score = 0

\* ------------------------------------------------------------------ C25

\* The committed ResourceAllocation rows of the decision a run row records.
DecisionRowsCommitted(run) ==
    IF run.optimization_type = "INVENTORY"
    THEN \A i \in DOMAIN run.results : \A l \in DOMAIN run.results[i] :
            \E a \in resource_allocations :
                /\ a.call = run.call
                /\ a.resource_type = "MATERIAL"
                /\ a.resource_id = <<"", i>>
                /\ a.production_line_id = l
                /\ a.allocated_quantity = run.results[i][l]
    ELSE \A j \in DOMAIN run.results :
            \E a \in resource_allocations :
                /\ a.call = run.call
                /\ a.resource_type = "LABOR"
                /\ a.resource_id = <<"job_", j>>
                /\ a.production_line_id = run.results[j].assigned_line

\* C25: every committed run row of type INVENTORY or PRODUCTION and of
\* status COMPLETED is accompanied by the committed ResourceAllocation rows
\* of its decision.
C25_CompletedRunHasItsRows ==
    \A run \in optimization_results :
        (run.optimization_type \in {"INVENTORY", "PRODUCTION"}
            /\ run.status = "COMPLETED") => DecisionRowsCommitted(run)

\* ------------------------------------------------------------------ C26

\* C26: within one loop iteration optimize_production_schedule runs if and
\* only if optimize_inventory_allocation returned without raising: after a
\* returned result, status=failed included, the worker calls the scheduler
\* next; after an exception it goes to the sleep of the except branch, calls
\* nothing there, and goes from it to the loop test.
C26_ScheduleIffInventoryReturned ==
    [][\A t \in Threads :
          /\ (pc[t] = "inventory" /\ pc'[t] # pc[t]) =>
                /\ ret'.entry = "inventory"
                /\ ret'.outcome \in {"returned", "raised"}
                /\ ret'.outcome = "returned" <=> pc'[t] = "schedule"
                /\ ret'.outcome = "raised" <=> pc'[t] = "sleep_except"
          /\ (pc'[t] = "schedule" /\ pc[t] # "schedule") => pc[t] = "inventory"
          /\ (pc[t] = "schedule" /\ pc'[t] # pc[t]) =>
                (ret'.entry = "schedule" /\ calls' = calls + 1)
          /\ (pc[t] = "sleep_except" /\ pc'[t] # pc[t]) =>
                (pc'[t] = "check" /\ calls' = calls)
      ]_vars

\* A worker is about to schedule after an allocation that returned
\* status=failed.
C26_Witness ==
    \E t \in Threads :
        /\ pc[t] = "schedule"
        /\ ret.entry = "inventory"
        /\ ret.outcome = "returned"
        /\ ret.status = "failed"

\* ------------------------------------------------------------------ C27

\* Every pending job fits some active line.
EveryJobFits ==
    \A j \in JobIds :
        \E l \in ActiveLines : JobQuantity[j] <= production_lines[l].capacity_per_hour

\* Some active line has capacity_per_hour >= 150.
SomeLineTakesLargestJob ==
    \E l \in ActiveLines : production_lines[l].capacity_per_hour >= 150

\* C27: with the pending jobs of 100, 150 and 75, at least one active line,
\* the database answering and the solve not stopped at its time limit,
\* optimize_production_schedule() returns status=success if and only if
\* every job fits some active line, which is to say some active line has
\* capacity_per_hour >= 150; otherwise it returns failed /
\* no_optimal_solution and writes no row.
C27_SuccessIffLargestJobFits ==
    [][(calls' = calls + 1 /\ ret'.entry = "schedule" /\ database_up
            /\ ActiveLines # {} /\ solver_status' # "Not Solved")
          => /\ EveryJobFits <=> SomeLineTakesLargestJob
             /\ IF SomeLineTakesLargestJob
                THEN ret'.outcome = "returned" /\ ret'.status = "success"
                ELSE /\ ret' = Of("schedule", Failed("no_optimal_solution"))
                     /\ optimization_results' = optimization_results
                     /\ resource_allocations' = resource_allocations]_vars

\* The only line taking the job of 150 is inactive, the active line takes
\* 100: the call returned no_optimal_solution and wrote nothing.
C27_Witness ==
    /\ production_lines = (1 :> Line(TRUE, 100)) @@ (2 :> Line(FALSE, 150))
    /\ ret = Of("schedule", Failed("no_optimal_solution"))
    /\ solver_status = "Infeasible"
    /\ optimization_results = {}
    /\ resource_allocations = {}

\* ------------------------------------------------------------------ C28

\* The stock of the items before any movement.
StockBeforeMovements == [i \in ItemIds |-> 2]

\* What a recorded movement adds to the stock of its item.
SignedQuantity(movement) ==
    IF movement.movement_type = "OUT" THEN 0 - movement.quantity
    ELSE movement.quantity

\* The sum of the signed quantities of the movements recorded for item i.
LedgerBalance(i) ==
    SumOver({k \in DOMAIN stock_movements : stock_movements[k].inventory_item_id = i},
            [k \in DOMAIN stock_movements |-> SignedQuantity(stock_movements[k])])

\* C28: after any sequence of update_stock calls made one after the other,
\* the current_stock of an item is its initial stock plus the quantities of
\* its IN movements, minus those of its OUT movements, plus the recorded
\* quantities (the new - old deltas) of its ADJUSTMENT movements.
C28_StockEqualsLedger ==
    \A i \in ItemIds :
        inventory_items[i].current_stock = StockBeforeMovements[i] + LedgerBalance(i)

\* Item 1 was adjusted from 2 down to 0 and then received 1: the ledger
\* holds -2 and +1 and the stock is 1.
C28_Witness ==
    /\ stock_movements =
          <<[inventory_item_id |-> 1, movement_type |-> "ADJUSTMENT", quantity |-> -2],
            [inventory_item_id |-> 1, movement_type |-> "IN", quantity |-> 1]>>
    /\ inventory_items[1].current_stock = 1
    /\ stock_ret = StockUpdated(1, 1, "IN")

\* ------------------------------------------------------------------ C29

\* The unresolved LOW_STOCK alerts of item i in a table of alerts.
UnresolvedLowStock(table, i) ==
    {a \in table : /\ a.alert_type = "LOW_STOCK"
                   /\ a.source_type = "INVENTORY"
                   /\ a.source_id = i
                   /\ ~a.is_resolved}

\* C29: after any sequence of update_stock calls every item has at most one
\* unresolved LOW_STOCK alert: an update that leaves the stock at or below
\* the reorder point adds one alert, for its item, exactly when the item had
\* none, and an update that leaves it above the reorder point, or raises,
\* adds none.
C29_AtMostOneLowStockAlert ==
    [][/\ \A i \in ItemIds : Cardinality(UnresolvedLowStock(alerts', i)) <= 1
       /\ (stock_ret' # stock_ret \/ stock_movements' # stock_movements) =>
             LET i == stock_ret'.item_id
                 low == /\ stock_ret'.outcome = "returned"
                        /\ inventory_items'[i].current_stock <= reorder_point[i]
             IN  /\ alerts \subseteq alerts'
                 /\ IF low /\ UnresolvedLowStock(alerts, i) = {}
                    THEN /\ Cardinality(alerts' \ alerts) = 1
                         /\ alerts' \ alerts \subseteq UnresolvedLowStock(alerts', i)
                    ELSE alerts' = alerts]_vars

\* Item 1 was taken to its reorder point and then below it: the second
\* update found the alert of the first and added none.
C29_Witness ==
    /\ Len(stock_movements) = 2
    /\ \A k \in DOMAIN stock_movements :
          /\ stock_movements[k].inventory_item_id = 1
          /\ stock_movements[k].movement_type = "OUT"
          /\ stock_movements[k].quantity = 1
    /\ inventory_items[1].current_stock = 0
    /\ Cardinality(UnresolvedLowStock(alerts, 1)) = 1
    /\ Cardinality(alerts) = 1

\* ------------------------------------------------------------------ C30

\* C30: optimize_resource_utilization() never returns an
\* inventory_optimization recommendation, whatever the stock of the items
\* and the movements recorded for them: every recommendation it returns is
\* of type efficiency_improvement.
C30_NoInventoryRecommendation ==
    UtilizationReturned =>
        /\ \A i \in ItemIds : RecommendationsFor("inventory_optimization", i) = 0
        /\ \A k \in DOMAIN ret.recommendations :
              ret.recommendations[k].type = "efficiency_improvement"

\* After item 1 was emptied by a movement, a utilization pass over the two
\* active items returned the recommendation for line 1 alone.
C30_Witness ==
    /\ UtilizationReturned
    /\ ActiveItems = ItemIds
    /\ Len(stock_movements) = 1
    /\ inventory_items[1].current_stock = 0
    /\ ret.recommendations = <<[type |-> "efficiency_improvement", id |-> 1]>>

====
